---- MODULE Spec2Model ----
(***************************************************************************)
(* Resume screener (src/app.py): PDF text extraction, TF-IDF / cosine      *)
(* ranking of resumes against a job description, and the filtered, sorted, *)
(* truncated result table with its detail panels.                          *)
(*                                                                         *)
(* A text is a sequence of whitespace-separated tokens; the empty sequence *)
(* is the empty string.  Scores are fixed-point: an integer s stands for   *)
(* the percentage s / 100, so 10000 is 100.00 %.  IDF weights are kept in  *)
(* tenths.                                                                 *)
(***************************************************************************)
EXTENDS Integers, Sequences, FiniteSets, TLC

\* ------------------------------------------------------------------ bounds
MaxLen == 1
MaxFiles == 2

\* ------------------------------------------------------------ input domains
\* "a" stands for every token the vectorizer's token pattern rejects
\* (a single character, punctuation); the other two are ordinary words.
Tokens == {"py", "sql", "a"}

RECURSIVE SeqsUpTo(_, _)
SeqsUpTo(S, n) ==
    IF n = 0 THEN {<<>>}
    ELSE LET shorter == SeqsUpTo(S, n - 1)
         IN  shorter \cup {Append(s, x) : s \in shorter, x \in S}

Texts == SeqsUpTo(Tokens, MaxLen)

\* ------------------------------------------------------- TfidfVectorizer
\* default token_pattern (?u)\b\w\w+\b : words of two or more characters
TokenPatternAllTokens(tok) == Len(tok) >= 1
TokenPattern(tok) == Len(tok) >= 2

Tokenize(text) == SelectSeq(text, TokenPattern)

Range(s) == {s[k] : k \in 1..Len(s)}

\* the fitted vocabulary: every accepted term of every document
Vocabulary(documents) == UNION {Range(Tokenize(documents[d])) : d \in 1..Len(documents)}

\* raw term count of term t in a document
Tf(text, t) == Cardinality({k \in 1..Len(text) : TokenPattern(text[k]) /\ text[k] = t})

\* number of documents that contain term t
Df(documents, t) == Cardinality({d \in 1..Len(documents) : Tf(documents[d], t) > 0})

\* smooth idf, ln((1 + n) / (1 + df)) + 1, in tenths; row n, column df
IdfTable ==
    << <<10>>,
       <<14, 10>>,
       <<17, 13, 10>>,
       <<19, 15, 12, 10>>,
       <<21, 17, 14, 12, 10>>,
       <<23, 18, 16, 13, 12, 10>> >>

Idf(documents, t) == IdfTable[Len(documents)][Df(documents, t)]

\* one tf-idf row per document, indexed by vocabulary term
TfidfVectors(documents) ==
    [d \in 1..Len(documents) |->
        [t \in Vocabulary(documents) |-> Tf(documents[d], t) * Idf(documents, t)]]

\* ----------------------------------------------------- cosine_similarity
RECURSIVE SumOver(_, _)
SumOver(S, f) ==
    IF S = {} THEN 0
    ELSE LET t == CHOOSE x \in S : TRUE
         IN  f[t] + SumOver(S \ {t}, f)

Dot(a, b) == SumOver(DOMAIN a, [t \in DOMAIN a |-> a[t] * b[t]])

\* squared Euclidean norm
Norm2(a) == Dot(a, a)

\* normalize() leaves an all-zero row alone by dividing it by 1
HandleZeros(n2) == IF n2 = 0 THEN 1 ELSE n2

RECURSIVE ISqrtIn(_, _, _)
ISqrtIn(n, lo, hi) ==
    IF lo >= hi THEN lo
    ELSE LET mid == (lo + hi + 1) \div 2
         IN  IF mid * mid <= n THEN ISqrtIn(n, mid, hi) ELSE ISqrtIn(n, lo, mid - 1)

\* floor of the square root, n < 2^30
ISqrt(n) == ISqrtIn(n, 0, 32767)

\* (cosine * 100).round(2) in hundredths of a percent.  The l2 scaling that
\* the vectorizer applies to each row cancels in the cosine, so the rows are
\* compared unscaled; the dot product never exceeds the root (Cauchy-Schwarz).
Cosine(a, b) ==
    LET r == ISqrt(HandleZeros(Norm2(a)) * HandleZeros(Norm2(b)))
    IN  (10000 * Dot(a, b) + r \div 2) \div r

\* ---------------------------------------------------------- rank_resumes
JobVectorLast(vectors) == vectors[Len(vectors)]
JobVector(vectors) == vectors[1]

ResumeVectors(vectors) == SubSeq(vectors, 2, Len(vectors))

ValueError == [kind |-> "ValueError", scores |-> <<>>]

rank_resumes(jd, res) ==
    LET documents == <<jd>> \o res
    IN  IF Vocabulary(documents) = {}
        THEN ValueError          \* fit_transform: empty vocabulary
        ELSE LET vectors == TfidfVectors(documents)
                 job_description_vector == JobVector(vectors)
                 resume_vectors == ResumeVectors(vectors)
             IN  IF Len(resume_vectors) = 0
                 THEN ValueError  \* cosine_similarity: array with 0 samples
                 ELSE [kind |-> "ok",
                       scores |-> [k \in 1..Len(resume_vectors) |->
                                      Cosine(job_description_vector, resume_vectors[k])]]

\* --------------------------------------------------------------- widgets
\* st.slider("Minimum Match Score (%)", 0, 100, 50): lowest, default, highest
MinScores == {0, 50, 100}
\* st.slider("Show Top N Candidates", 1, 20, 5): lowest and highest
TopNs == {1, 20}

\* an uploaded PDF: PdfReader either raises on it or yields its text
Pdfs == {[readable |-> FALSE, text |-> <<>>]} \cup {[readable |-> TRUE, text |-> t] : t \in Texts}

\* file k of an upload is named by its slot k
Uploads ==
    UNION {{[k \in 1..n |-> [name |-> k, pdf |-> f[k]]] : f \in [1..n -> Pdfs]} : n \in 0..MaxFiles}

VARIABLES
    job_description,  \* st.text_area value
    uploaded_files,   \* st.file_uploader value
    min_score, top_n, show_details,
    pc,               \* position of the script run
    i,                \* index of the next file of the extraction loop
    resumes,          \* texts kept by the loop
    notices,          \* names reported with st.error
    extract_calls,    \* names passed to extract_text_from_pdf, in call order
    rank_calls,       \* the resume lists passed to rank_resumes, in call order
    scores,           \* what rank_resumes returned or raised
    results,          \* the results DataFrame
    sorted_results,   \* filtered, sorted, truncated rows
    panels,           \* the expanders of "Resume Details"
    outcome           \* how the run ended

vars == <<job_description, uploaded_files, min_score, top_n, show_details, pc, i, resumes,
          notices, extract_calls, rank_calls, scores, results, sorted_results, panels, outcome>>

NoScores == [kind |-> "none", scores |-> <<>>]

\* ------------------------------------------------- extract_text_from_pdf
extract_text_from_pdf(file) ==
    IF file.pdf.readable
    THEN [text |-> file.pdf.text, error |-> FALSE]
    ELSE [text |-> <<>>, error |-> TRUE]

\* ------------------------------------------------------------ the script
\* if text: resumes.append(text)
AppendAlways(res, text) == Append(res, text)
AppendIfText(res, text) == IF text # <<>> THEN Append(res, text) ELSE res

\* for i, file in enumerate(uploaded_files)
LoopDoneEarly(k, files) == k >= Len(files)
LoopDone(k, files) == k > Len(files)

\* pd.DataFrame({...}): the columns must have one length
SameLength(files, sc) == Len(files) = Len(sc)

Row(files, sc, k, threshold) ==
    [idx |-> k, Resume |-> files[k].name, score |-> sc[k], qualified |-> sc[k] >= threshold * 100]

\* results[results["Match Score (%)"] >= min_score]
KeepStrict(row, threshold) == row.score > threshold * 100
Keep(row, threshold) == row.score >= threshold * 100

Filter(rows, threshold) == SelectSeq(rows, LAMBDA row : Keep(row, threshold))

\* sort_values(by="Match Score (%)", ascending=False): rows of equal score
\* come in whatever order the sort leaves them
Ordered(rows) == \A k \in 1..Len(rows) - 1 : rows[k].score >= rows[k + 1].score

Sortings(rows) ==
    {[k \in 1..Len(rows) |-> rows[p[k]]] :
        p \in {q \in [1..Len(rows) -> 1..Len(rows)] : \A a, b \in 1..Len(rows) : a # b => q[a] # q[b]}}

SortedDescending(rows) == {s \in Sortings(rows) : Ordered(s)}

\* .head(top_n)
head(rows, n) == SubSeq(rows, 1, IF n < Len(rows) THEN n ELSE Len(rows))

\* st.write(resumes[idx]) inside the expander of the row at position pos
PanelTextByPosition(res, row, pos) == res[pos]
PanelText(res, row, pos) == res[row.idx]

Panel(res, rows, pos) ==
    [Resume |-> rows[pos].Resume, score |-> rows[pos].score, text |-> PanelText(res, rows[pos], pos)]

Init ==
    /\ job_description \in Texts
    /\ uploaded_files \in Uploads
    /\ min_score \in MinScores
    /\ top_n \in TopNs
    /\ show_details \in BOOLEAN
    /\ pc = "start"
    /\ i = 1
    /\ resumes = <<>>
    /\ notices = {}
    /\ extract_calls = <<>>
    /\ rank_calls = <<>>
    /\ scores = NoScores
    /\ results = <<>>
    /\ sorted_results = <<>>
    /\ panels = <<>>
    /\ outcome = "running"

\* if uploaded_files and job_description: ... else: st.info
Start ==
    /\ pc = "start"
    /\ IF uploaded_files # <<>> /\ job_description # <<>>
       THEN pc' = "extract" /\ outcome' = outcome
       ELSE pc' = "done" /\ outcome' = "info"
    /\ UNCHANGED <<job_description, uploaded_files, min_score, top_n, show_details, i, resumes,
                   notices, extract_calls, rank_calls, scores, results, sorted_results, panels>>

\* one iteration of the extraction loop
ExtractStep ==
    /\ pc = "extract"
    /\ ~LoopDone(i, uploaded_files)
    /\ LET file == uploaded_files[i]
           got == extract_text_from_pdf(file)
       IN  /\ extract_calls' = Append(extract_calls, file.name)
           /\ notices' = IF got.error THEN notices \cup {file.name} ELSE notices
           /\ resumes' = AppendIfText(resumes, got.text)
    /\ i' = i + 1
    /\ UNCHANGED <<job_description, uploaded_files, min_score, top_n, show_details, pc,
                   rank_calls, scores, results, sorted_results, panels, outcome>>

\* if resumes: scores = rank_resumes(job_description, resumes)
Rank ==
    /\ pc = "extract"
    /\ LoopDone(i, uploaded_files)
    /\ resumes # <<>>
    /\ rank_calls' = Append(rank_calls, resumes)
    /\ scores' = rank_resumes(job_description, resumes)
    /\ IF scores'.kind = "ok"
       THEN pc' = "results" /\ outcome' = outcome
       ELSE pc' = "done" /\ outcome' = "exception"
    /\ UNCHANGED <<job_description, uploaded_files, min_score, top_n, show_details, i, resumes,
                   notices, extract_calls, results, sorted_results, panels>>

\* else: st.warning("No valid text extracted from uploaded PDFs")
WarnNoText ==
    /\ pc = "extract"
    /\ LoopDone(i, uploaded_files)
    /\ resumes = <<>>
    /\ pc' = "done"
    /\ outcome' = "warning"
    /\ UNCHANGED <<job_description, uploaded_files, min_score, top_n, show_details, i, resumes,
                   notices, extract_calls, rank_calls, scores, results, sorted_results, panels>>

\* results = pd.DataFrame({"Resume": ..., "Match Score (%)": ..., "Status": ...})
BuildResults ==
    /\ pc = "results"
    /\ IF SameLength(uploaded_files, scores.scores)
       THEN /\ results' = [k \in 1..Len(uploaded_files) |->
                              Row(uploaded_files, scores.scores, k, min_score)]
            /\ pc' = "present"
            /\ outcome' = outcome
       ELSE /\ results' = results
            /\ pc' = "done"
            /\ outcome' = "exception"
    /\ UNCHANGED <<job_description, uploaded_files, min_score, top_n, show_details, i, resumes,
                   notices, extract_calls, rank_calls, scores, sorted_results, panels>>

\* filtered_results, sorted_results
FilterSort ==
    /\ pc = "present"
    /\ \E s \in SortedDescending(Filter(results, min_score)) :
          sorted_results' = head(s, top_n)
    /\ pc' = "details"
    /\ UNCHANGED <<job_description, uploaded_files, min_score, top_n, show_details, i, resumes,
                   notices, extract_calls, rank_calls, scores, results, panels, outcome>>

\* metrics, chart, table, download button and, if show_details, one expander per row
Render ==
    /\ pc = "details"
    /\ panels' = IF show_details
                 THEN [pos \in 1..Len(sorted_results) |-> Panel(resumes, sorted_results, pos)]
                 ELSE <<>>
    /\ pc' = "done"
    /\ outcome' = "displayed"
    /\ UNCHANGED <<job_description, uploaded_files, min_score, top_n, show_details, i, resumes,
                   notices, extract_calls, rank_calls, scores, results, sorted_results>>

Next == Start \/ ExtractStep \/ Rank \/ WarnNoText \/ BuildResults \/ FilterSort \/ Render

Spec == Init /\ [][Next]_vars

\* ------------------------------------------ rank_resumes called directly
InitRank ==
    /\ job_description \in Texts
    /\ resumes \in SeqsUpTo(Texts, MaxFiles)
    /\ uploaded_files = <<>>
    /\ min_score = 0
    /\ top_n = 1
    /\ show_details = FALSE
    /\ pc = "call"
    /\ i = 1
    /\ notices = {}
    /\ extract_calls = <<>>
    /\ rank_calls = <<>>
    /\ scores = NoScores
    /\ results = <<>>
    /\ sorted_results = <<>>
    /\ panels = <<>>
    /\ outcome = "running"

RankCall ==
    /\ pc = "call"
    /\ rank_calls' = Append(rank_calls, resumes)
    /\ scores' = rank_resumes(job_description, resumes)
    /\ pc' = "returned"
    /\ UNCHANGED <<job_description, uploaded_files, min_score, top_n, show_details, i, resumes,
                   notices, extract_calls, results, sorted_results, panels, outcome>>

NextRank == RankCall

SpecRank == InitRank /\ [][NextRank]_vars

\* ------------------------------------------------------------ properties
\* the words of a text that reach the vocabulary, read off the raw text
Words(text) == {text[k] : k \in {j \in 1..Len(text) : Len(text[j]) >= 2}}

CorpusWords == Words(job_description) \cup UNION {Words(resumes[k]) : k \in 1..Len(resumes)}

Returned == pc = "returned"

\* the caller's side of the contract: every resume text is a non-empty string
ResumesNonEmpty == \A k \in 1..Len(resumes) : resumes[k] # <<>>

\* score of resume k against the job description, from the corpus vectors
PairScore(k) ==
    LET vectors == TfidfVectors(<<job_description>> \o resumes)
    IN  Cosine(vectors[1], vectors[k + 1])

\* C1: for every job description and every non-empty sequence of resumes,
\* rank_resumes returns one score per resume, in input order, the score at
\* position k being that of resume k against corpus position 0, each within
\* [0, 100].
C1_OneScorePerResume ==
    (Returned /\ resumes # <<>> /\ ResumesNonEmpty) =>
        /\ scores.kind = "ok"
        /\ Len(scores.scores) = Len(resumes)
        /\ \A k \in 1..Len(scores.scores) :
              /\ scores.scores[k] \in 0..10000
              /\ scores.scores[k] = PairScore(k)

\* C3: rank_resumes with an empty resume sequence returns an empty sequence
\* of scores and raises nothing.
C3_EmptyBatchReturnsEmpty ==
    (Returned /\ resumes = <<>>) => (scores.kind = "ok" /\ scores.scores = <<>>)

\* C4: when no document of the corpus holds a term the vectorizer accepts,
\* rank_resumes returns 0 for every resume instead of raising.
C4_NoVocabularyScoresZero ==
    (Returned /\ resumes # <<>> /\ CorpusWords = {}) =>
        /\ scores.kind = "ok"
        /\ Len(scores.scores) = Len(resumes)
        /\ \A k \in 1..Len(scores.scores) : scores.scores[k] = 0

IdenticalAndUnrelated(a, b) ==
    /\ a # b
    /\ resumes[a] = job_description
    /\ Words(resumes[b]) \cap Words(job_description) = {}

\* C5 as stated: for every job description, also one whose tokens are all
\* rejected, a resume identical to it scores strictly higher than a resume
\* that shares no vocabulary term with it (read here on the corpora that
\* have a vocabulary, where the call returns).
C5_IdenticalBeatsUnrelatedAnyDescription ==
    (Returned /\ ResumesNonEmpty /\ CorpusWords # {}) =>
        \A a, b \in 1..Len(resumes) :
            IdenticalAndUnrelated(a, b) =>
                (scores.kind = "ok" /\ scores.scores[a] > scores.scores[b])

\* C5 amended: for every job description that holds at least one term the
\* vectorizer accepts, a resume identical to it scores strictly higher than
\* a resume that shares no vocabulary term with it.
C5_IdenticalBeatsUnrelated ==
    (Returned /\ Words(job_description) # {}) =>
        \A a, b \in 1..Len(resumes) :
            IdenticalAndUnrelated(a, b) =>
                (scores.kind = "ok" /\ scores.scores[a] > scores.scores[b])

C5_Witness ==
    /\ Returned
    /\ Words(job_description) # {}
    /\ \E a, b \in 1..Len(resumes) :
          /\ b < a
          /\ IdenticalAndUnrelated(a, b)
          /\ Words(resumes[b]) # {}
          /\ scores.scores[a] = 10000
          /\ scores.scores[b] = 0

ZeroNormPair(k) ==
    \/ Words(job_description) = {}
    \/ Words(resumes[k]) = {}
    \/ Words(job_description) \cap Words(resumes[k]) = {}

\* C8: with a non-empty corpus vocabulary, a resume whose vector or whose
\* job description's vector has zero norm (only rejected tokens), or that
\* shares no term with the job description, scores exactly 0, and the call
\* raises nothing.
C8_ZeroNormScoresZero ==
    (Returned /\ resumes # <<>> /\ CorpusWords # {}) =>
        /\ scores.kind = "ok"
        /\ \A k \in 1..Len(resumes) : ZeroNormPair(k) => scores.scores[k] = 0

C8_Witness ==
    /\ Returned
    /\ scores.kind = "ok"
    /\ \E k, m \in 1..Len(resumes) :
          /\ job_description # <<>>
          /\ Words(job_description) = {}
          /\ resumes[k] = job_description
          /\ Words(resumes[m]) # {}
          /\ scores.scores[k] = 0
          /\ scores.scores[m] = 0

\* --------------------------------------------------- properties of a run
Finished == pc = "done"

Processing == uploaded_files # <<>> /\ job_description # <<>>

\* the files whose extraction yields text, and those it fails on or finds empty
WithText == {k \in 1..Len(uploaded_files) : uploaded_files[k].pdf.text # <<>>}
WithoutText == {k \in 1..Len(uploaded_files) : uploaded_files[k].pdf.text = <<>>}

\* the texts of the files that yield text, in upload order
RECURSIVE KeptTexts(_)
KeptTexts(n) ==
    IF n = 0 THEN <<>>
    ELSE IF n \in WithText
         THEN Append(KeptTexts(n - 1), uploaded_files[n].pdf.text)
         ELSE KeptTexts(n - 1)

\* C2: in a batch where some document fails to extract or yields no text and
\* another yields text, the run drops the failed documents, ranks the rest
\* and ends with a result table of one name/score row per remaining resume,
\* never in a fatal error.
C2_FailedDocumentsAreSkipped ==
    (Finished /\ Processing /\ WithText # {} /\ WithoutText # {}) =>
        /\ outcome = "displayed"
        /\ resumes = KeptTexts(Len(uploaded_files))
        /\ Len(results) = Len(resumes)

Qualifying == {k \in 1..Len(results) : results[k].score >= min_score * 100}

Shown == {sorted_results[p].idx : p \in 1..Len(sorted_results)}

Presented == pc = "details" \/ (Finished /\ outcome = "displayed")

\* C6: the displayed rows are entries whose score is at least the threshold
\* (inclusive), in non-increasing score order, min(top_n, number of
\* qualifying entries) of them, and no qualifying entry left out has a
\* higher score than a displayed one.
C6_FilterSortTruncate ==
    Presented =>
        /\ Len(sorted_results) =
              (IF top_n < Cardinality(Qualifying) THEN top_n ELSE Cardinality(Qualifying))
        /\ Cardinality(Shown) = Len(sorted_results)
        /\ Shown \subseteq Qualifying
        /\ \A p \in 1..Len(sorted_results) : sorted_results[p] = results[sorted_results[p].idx]
        /\ \A p \in 1..Len(sorted_results) - 1 :
              sorted_results[p].score >= sorted_results[p + 1].score
        /\ \A k \in Qualifying \ Shown : \A p \in 1..Len(sorted_results) :
              results[k].score <= sorted_results[p].score

C6_Witness ==
    /\ Finished /\ outcome = "displayed"
    /\ Cardinality(Qualifying) > top_n
    /\ \E k \in Qualifying \ Shown : \E p \in 1..Len(sorted_results) :
          /\ results[k].score = min_score * 100
          /\ results[k].score < sorted_results[p].score
          /\ k < sorted_results[p].idx

\* C7: rank_resumes is only ever called with a non-empty sequence of
\* non-empty texts, namely the texts of the documents that yield text; when
\* no document yields text it is not called and the run ends in the
\* empty-result warning.
C7_RankOnlyNonEmpty ==
    /\ \A c \in 1..Len(rank_calls) :
          /\ rank_calls[c] # <<>>
          /\ \A k \in 1..Len(rank_calls[c]) : rank_calls[c][k] # <<>>
          /\ rank_calls[c] = KeptTexts(Len(uploaded_files))
    /\ (Finished /\ Processing /\ WithText = {}) =>
          (rank_calls = <<>> /\ outcome = "warning")

C7_Witness ==
    /\ Finished
    /\ Len(rank_calls) = 1
    /\ WithoutText # {}
    /\ Len(rank_calls[1]) < Len(uploaded_files)

\* C9: in a run that starts processing, extraction is called once per
\* uploaded document, in upload order, all calls before ranking, and
\* ranking is called at most once, on the whole corpus.
C9_ExtractAllThenRankOnce ==
    /\ Len(extract_calls) <= Len(uploaded_files)
    /\ \A k \in 1..Len(extract_calls) : extract_calls[k] = uploaded_files[k].name
    /\ Len(rank_calls) <= 1
    /\ rank_calls # <<>> =>
          (Len(extract_calls) = Len(uploaded_files) /\ rank_calls[1] = resumes)
    /\ (Finished /\ Processing) => Len(extract_calls) = Len(uploaded_files)

C9_Witness ==
    /\ Finished
    /\ Len(rank_calls) = 1
    /\ Len(extract_calls) >= 2
    /\ notices # {}

\* the file a displayed name belongs to
FilesNamed(name) == {k \in 1..Len(uploaded_files) : uploaded_files[k].name = name}

\* score of file k when every uploaded text is ranked against the description
FileScore(k) ==
    LET texts == [j \in 1..Len(uploaded_files) |-> uploaded_files[j].pdf.text]
        vectors == TfidfVectors(<<job_description>> \o texts)
    IN  Cosine(vectors[1], vectors[k + 1])

\* C10: in every displayed row, and in its detail panel, the name, the score
\* and the full text belong to one uploaded document.
C10_RowsBelongToOneDocument ==
    (Finished /\ outcome = "displayed") =>
        /\ \A p \in 1..Len(sorted_results) :
              \E k \in FilesNamed(sorted_results[p].Resume) :
                  sorted_results[p].score = FileScore(k)
        /\ show_details => Len(panels) = Len(sorted_results)
        /\ \A p \in 1..Len(panels) :
              /\ panels[p].Resume = sorted_results[p].Resume
              /\ \E k \in FilesNamed(panels[p].Resume) :
                    /\ panels[p].score = FileScore(k)
                    /\ panels[p].text = uploaded_files[k].pdf.text

C10_Witness ==
    /\ Finished /\ outcome = "displayed"
    /\ Len(panels) >= 2
    /\ panels[1].Resume # uploaded_files[1].name
    /\ panels[1].text # panels[2].text
    /\ panels[1].score > panels[2].score

====
